---------------------------- MODULE Spec2Model ----------------------------
(***************************************************************************)
(* A model of dkglib's off-chain DKG coordinator (OffChainDKG): the round  *)
(* registry, the staged verifier and its change height, the per-block      *)
(* scheduler CheckDKGTime and the inbound message handler                  *)
(* HandleOffChainShare.                                                    *)
(***************************************************************************)
EXTENDS Integers, Naturals, Sequences, FiniteSets, TLC

(************************* bounds of the model *****************************)
\* Round ids an inbound message may carry: 1..MaxRound.
MaxRound == 2
\* Number of blocks (CheckDKGTime calls) in one behaviour.
MaxBlocks == 38
\* Number of blocks of each node where two nodes run side by side.
MaxPeerBlocks == 4
\* Number of blocks by which the heights of two nodes may differ.
MaxSkew == 1

(************************* program constants *******************************)
BlocksAhead == 20
DefaultDKGNumBlocks == 100

\* The seven DKGDataType ordinals, in order, and the dealer's handler for each.
HandlerNames == <<"HandleDKGPubKey", "HandleDKGDeal", "HandleDKGResponse",
                  "HandleDKGJustification", "HandleDKGCommit",
                  "HandleDKGComplaint", "HandleDKGReconstructCommit">>

VARIABLES
    verifier,          \* m.verifier: the verifier in use
    nextVerifier,      \* m.nextVerifier: the staged verifier
    changeHeight,      \* m.changeHeight
    dkgRoundToDealer,  \* m.dkgRoundToDealer: round id -> dealer (or nil)
    dkgRoundID,        \* m.dkgRoundID
    dkgNumBlocks,      \* m.dkgNumBlocks
    height,            \* the current block height
    blocks,            \* number of CheckDKGTime calls so far
    last,              \* what the last handler call was, did and returned
    peer,              \* a second node: its coordinator, height and last call
    conc,              \* where the consensus and reactor threads are in their calls
    configured,        \* the dkg_num_blocks option the coordinator was built with
    delivered,         \* the message of the latest HandleOffChainShare call
    queue,             \* m.dkgMsgQueue, the detached senders and the sink's last call
    oc,                \* the OnChainDKG instances and their driver goroutines
    store,             \* the chain's DKG data: phase type -> messages
    main               \* main(): the WaitGroup and whether main returned or panicked

\* The state outside the off-chain coordinator, its heights and its threads.
ext == <<configured, delivered, queue, oc, store, main>>

vars == <<verifier, nextVerifier, changeHeight, dkgRoundToDealer, dkgRoundID,
          dkgNumBlocks, height, blocks, last, peer, conc, ext>>

(************************* verifiers and dealers ***************************)
NilVerifier == [kind |-> "nil", round |-> 0]
BootstrapVerifier == [kind |-> "bootstrap", round |-> 0]
RoundVerifier(r) == [kind |-> "dkg", round |-> r]

\* A nil interface value stored in the registry (a tombstone).
NilDealer == [nil |-> TRUE, round |-> 0, started |-> FALSE, seen |-> {}, failed |-> FALSE]

\* The phase types an inbound message carries here: DKGPubKey and DKGDeal.
AllTypes == {0, 1}

\* The dealer (lib/dealer) is a black box of the coordinator: it absorbs phase
\* messages idempotently and yields a verifier once every phase type was seen.
NewDKGDealer(roundID) ==
    [nil |-> FALSE, round |-> roundID, started |-> FALSE, seen |-> {}, failed |-> FALSE]

DealerStart(d) == [d EXCEPT !.started = TRUE]

\* TRUE iff dealer.VerifyMessage returns nil.
VerifyMessage(d, msg) == msg.kind # "badsig"

\* TRUE iff the phase handler returns an error.
HandlerFails(d, msg) == msg.kind = "badpayload"

\* The dealer after its phase handler ran without error.
DealerHandle(d, msg) ==
    [d EXCEPT !.seen = @ \cup {msg.type},
              !.failed = @ \/ msg.kind = "poison"]

\* dealer.GetVerifier: "failed", "notready" or "ready".
GetVerifier(d) ==
    IF d.failed THEN "failed"
    ELSE IF AllTypes \subseteq d.seen THEN "ready"
    ELSE "notready"

Messages ==
    [round : 1..MaxRound, type : AllTypes,
     kind : {"good", "badsig", "badpayload", "poison"}]

(************************* the coordinator *********************************)
\* The coordinator as one record, the receiver m of the methods.
M == [verifier |-> verifier, nextVerifier |-> nextVerifier,
      changeHeight |-> changeHeight, dkgRoundToDealer |-> dkgRoundToDealer,
      dkgRoundID |-> dkgRoundID, dkgNumBlocks |-> dkgNumBlocks]

\* m.dkgRoundToDealer[k] = v
Put(f, k, v) == [x \in (DOMAIN f) \cup {k} |-> IF x = k THEN v ELSE f[x]]

\* NewOffChainDKG with options WithVerifier(v), WithDKGNumBlocks(n).
NewOffChainDKG(v, n) ==
    [verifier |-> v, nextVerifier |-> NilVerifier, changeHeight |-> 0,
     dkgRoundToDealer |-> << >>, dkgRoundID |-> 0,
     dkgNumBlocks |-> IF n = 0 THEN DefaultDKGNumBlocks ELSE n]

\* A change height rounded up instead of down.
ChangeHeightAt_RoundUp(h) == (h + BlocksAhead) + (5 - ((h + BlocksAhead) % 5))

\* A change height that forgets BlocksAhead.
ChangeHeightAt_NoBlocksAhead(h) == h - (h % 5)

\* The height at which a verifier staged at height h is promoted.
ChangeHeightAt(h) == (h + BlocksAhead) - ((h + BlocksAhead) % 5)

\* The result of a handler call: the coordinator after it and what it did.
Outcome(m, op, h, round, path, ret, calls, events, slashed) ==
    [m |-> m, op |-> op, height |-> h, round |-> round, path |-> path,
     ret |-> ret, calls |-> calls, events |-> events, slashed |-> slashed]


Event(name, data) == [name |-> name, data |-> data]

\* A lookup that takes a nil entry for a missing one and creates the dealer anew.
LookupDealer_Recreate(m, msg) ==
    IF msg.round \in DOMAIN m.dkgRoundToDealer /\ ~m.dkgRoundToDealer[msg.round].nil
    THEN <<m, << >> >>
    ELSE <<[m EXCEPT !.dkgRoundToDealer =
                Put(@, msg.round, DealerStart(NewDKGDealer(msg.round)))],
           <<"NewDKGDealer", "Start">> >>

\* Lines 337-345: the dealer of msg's round, created and started when the
\* registry has no entry for it.  <<coordinator, dealer methods called>>
LookupDealer(m, msg) ==
    IF msg.round \in DOMAIN m.dkgRoundToDealer
    THEN <<m, << >> >>
    ELSE <<[m EXCEPT !.dkgRoundToDealer =
                Put(@, msg.round, DealerStart(NewDKGDealer(msg.round)))],
           <<"NewDKGDealer", "Start">> >>

\* Lines 403-407: "killing older rounds".  The loop visits every key of the
\* registry and, for each key below the completed round, stores nil under the
\* completed round's own id.
KillOlderRounds(reg, completed) ==
    IF \E roundID \in DOMAIN reg : roundID < completed
    THEN [reg EXCEPT ![completed] = NilDealer]
    ELSE reg

\* A completion that installs the verifier at once instead of staging it.
StageVerifier_Direct(m, v, h) ==
    [m EXCEPT !.verifier = v, !.changeHeight = ChangeHeightAt(h)]

\* Lines 408-409: stage the verifier and set the change height.
StageVerifier(m, v, h) ==
    [m EXCEPT !.nextVerifier = v, !.changeHeight = ChangeHeightAt(h)]

\* A failed round whose dealer is left in the registry.
Tombstone_Keep(m, round) == m

\* Lines 387 and 399: m.dkgRoundToDealer[msg.RoundID] = nil
Tombstone(m, round) == [m EXCEPT !.dkgRoundToDealer[round] = NilDealer]

\* Lines 327-413.
HandleOffChainShare(m, msg, h) ==
    LET found == LookupDealer(m, msg)
        m1 == found[1]
        dealer == m1.dkgRoundToDealer[msg.round]
        c1 == found[2] \o <<"VerifyMessage">>
        c2 == c1 \o <<HandlerNames[msg.type + 1]>>
        m2 == [m1 EXCEPT !.dkgRoundToDealer[msg.round] = DealerHandle(dealer, msg)]
        dealer2 == m2.dkgRoundToDealer[msg.round]
        c3 == c2 \o <<"GetVerifier">>
        m3 == StageVerifier(
                  [m2 EXCEPT !.dkgRoundToDealer = KillOlderRounds(@, msg.round)],
                  RoundVerifier(dealer2.round), h)
    IN  IF dealer.nil
        THEN Outcome(m1, "handle", h, msg.round, "inactive", FALSE, found[2], << >>, FALSE)
        ELSE IF ~VerifyMessage(dealer, msg)
        THEN Outcome(m1, "handle", h, msg.round, "unverified", FALSE, c1, << >>, FALSE)
        ELSE IF HandlerFails(dealer, msg)
        THEN Outcome(Tombstone(m1, msg.round), "handle", h, msg.round, "handler_error",
                     FALSE, c2 \o <<"GetLosers">>, << >>, TRUE)
        ELSE IF GetVerifier(dealer2) = "notready"
        THEN Outcome(m2, "handle", h, msg.round, "not_ready", FALSE, c3, << >>, FALSE)
        ELSE IF GetVerifier(dealer2) = "failed"
        THEN Outcome(Tombstone(m2, msg.round), "handle", h, msg.round, "verifier_error",
                     TRUE, c3 \o <<"GetLosers">>, << >>, TRUE)
        ELSE Outcome(m3, "handle", h, msg.round, "success", FALSE, c3,
                     <<Event("EventDKGSuccessful", m3.changeHeight)>>, FALSE)

\* A round start that constructs a dealer whether or not the round is known.
startRound_Recreate(m) ==
    LET id == m.dkgRoundID + 1
    IN  <<[m EXCEPT !.dkgRoundID = id,
                    !.dkgRoundToDealer = Put(@, id, DealerStart(NewDKGDealer(id)))],
          <<"NewDKGDealer", "Start">>,
          <<Event("EventDKGStart", id)>> >>

\* Lines 415-427.  <<coordinator, dealer methods called, events fired>>
startRound(m) ==
    LET id == m.dkgRoundID + 1
        m1 == [m EXCEPT !.dkgRoundID = id]
    IN  IF id \notin DOMAIN m1.dkgRoundToDealer
        THEN <<[m1 EXCEPT !.dkgRoundToDealer =
                    Put(@, id, DealerStart(NewDKGDealer(id)))],
               <<"NewDKGDealer", "Start">>,
               <<Event("EventDKGStart", id)>> >>
        ELSE <<m1, << >>, << >> >>

\* A swap test that also fires at every height after the change height.
SwapDue_AtOrAfter(m, h) == m.changeHeight <= h

\* Line 467: it is time to update the verifier.
SwapDue(m, h) == m.changeHeight = h

\* A swap that leaves the staged verifier in place.
SwapVerifier_KeepNext(m) ==
    [m EXCEPT !.verifier = m.nextVerifier, !.changeHeight = 0]

\* Lines 469-470: promote the staged verifier.
SwapVerifier(m) ==
    [m EXCEPT !.verifier = m.nextVerifier, !.nextVerifier = NilVerifier,
              !.changeHeight = 0]

\* The round-start test without the skip of heights 0 and 1.
RoundDue_NoSkip(m, h) == h % m.dkgNumBlocks = 0

\* Line 474: it is time to start a round.
RoundDue(m, h) == h > 1 /\ h % m.dkgNumBlocks = 0

\* Lines 466-479.
CheckDKGTime(m, h) ==
    LET swap == SwapDue(m, h)
        m1 == IF swap THEN SwapVerifier(m) ELSE m
        e1 == IF swap THEN <<Event("EventDKGKeyChange", h)>> ELSE << >>
        start == RoundDue(m1, h)
        sr == startRound(m1)
        m2 == IF start THEN sr[1] ELSE m1
    IN  Outcome(m2, "check", h, IF start THEN m2.dkgRoundID ELSE 0,
                IF swap THEN "swap" ELSE "noswap", start,
                IF start THEN sr[2] ELSE << >>,
                IF start THEN e1 \o sr[3] ELSE e1, FALSE)

(************************* the state machine *******************************)
\* The record of a call: what it was, did and returned.
LastOf(o) ==
    [op |-> o.op, height |-> o.height, round |-> o.round, path |-> o.path,
     ret |-> o.ret, calls |-> o.calls, events |-> o.events, slashed |-> o.slashed]

\* The coordinator's fields become those of m.
Store(m) ==
    /\ verifier' = m.verifier
    /\ nextVerifier' = m.nextVerifier
    /\ changeHeight' = m.changeHeight
    /\ dkgRoundToDealer' = m.dkgRoundToDealer
    /\ dkgRoundID' = m.dkgRoundID
    /\ dkgNumBlocks' = m.dkgNumBlocks

\* The coordinator's fields after a call, and the record of the call.
Apply(o) == Store(o.m) /\ last' = LastOf(o)

NoCall == [op |-> "init", height |-> 0, round |-> 0, path |-> "none", ret |-> FALSE,
           calls |-> << >>, events |-> << >>, slashed |-> FALSE]

\* Both threads outside the coordinator, the mutex free.
Idle == [check |-> "idle", share |-> "idle", mtx |-> FALSE, h |-> 0, v |-> NilVerifier]

\* No message: the value of delivered before any HandleOffChainShare call.
NoMessage == [round |-> 0, type |-> 0, kind |-> "none"]

\* The record of a sink call, before any.
NoSend == [id |-> 0, signed |-> FALSE, path |-> "none", returned |-> FALSE,
           fired |-> FALSE]

\* make(chan, MsgQueueSize): an empty channel, no detached sender.
EmptyQueue == [chan |-> << >>, spawned |-> {}, blocked |-> << >>, calls |-> 0,
               signed |-> {}, fired |-> {}, entered |-> {}, last |-> NoSend]

\* The seven phase types in the order of their ordinals 0..6.
PhaseOrder ==
    <<"DKGPubKey", "DKGDeal", "DKGResponse", "DKGJustification", "DKGCommits",
      "DKGComplaint", "DKGReconstructCommit">>

DataTypes == 0..(Len(PhaseOrder) - 1)

\* A chain without DKG data.
EmptyStore == [t \in DataTypes |-> << >>]

\* main() before it created an instance.
NotRunning == [wg |-> 0, finished |-> FALSE, panicked |-> FALSE]

\* The on-chain side and the message queue, not in use.
Outside ==
    /\ delivered = NoMessage
    /\ queue = EmptyQueue
    /\ oc = << >>
    /\ store = EmptyStore
    /\ main = NotRunning

\* The nodes modelled: the chain height at which each boots and the options
\* its coordinator is constructed with (dkg_num_blocks 0 is "not provided").
Boots ==
    {[height |-> 9, verifier |-> NilVerifier, numBlocks |-> 10],
     [height |-> 76, verifier |-> BootstrapVerifier, numBlocks |-> 0]}

\* A node booted with configuration boot, and a peer booted like it.
BootNode(boot) ==
    LET m == NewOffChainDKG(boot.verifier, boot.numBlocks)
    IN  /\ verifier = m.verifier
        /\ nextVerifier = m.nextVerifier
        /\ changeHeight = m.changeHeight
        /\ dkgRoundToDealer = m.dkgRoundToDealer
        /\ dkgRoundID = m.dkgRoundID
        /\ dkgNumBlocks = m.dkgNumBlocks
        /\ height = boot.height
        /\ blocks = 0
        /\ last = NoCall
        /\ peer = [m |-> m, height |-> boot.height, blocks |-> 0, last |-> NoCall]
        /\ conc = Idle
        /\ configured = boot.numBlocks

\* A node whose on-chain side and message queue are not in use.
Boot(boot) == BootNode(boot) /\ Outside

Init == \E boot \in Boots : Boot(boot)

\* The consensus thread: one CheckDKGTime call per block, heights increasing
\* by one from the boot height.
NewBlock ==
    /\ blocks < MaxBlocks
    /\ LET h == IF blocks = 0 THEN height ELSE height + 1
       IN  /\ Apply(CheckDKGTime(M, h))
           /\ height' = h
           /\ blocks' = blocks + 1
    /\ UNCHANGED <<peer, conc, ext>>

\* The reactor thread: an inbound message handled at the current height.
ReceiveShare ==
    \E msg \in Messages :
        /\ Apply(HandleOffChainShare(M, msg, height))
        /\ UNCHANGED <<height, blocks, peer, conc, ext>>

Next == NewBlock \/ ReceiveShare

Spec == Init /\ [][Next]_vars

(************************* two nodes ***************************************)
\* Two honest nodes of one network receive the same gossip, each at its own
\* height; their heights differ by at most MaxSkew blocks.
PeerBoots == {[height |-> 13, verifier |-> BootstrapVerifier, numBlocks |-> 0]}

\* The messages of an undisturbed round 1.
PeerMessages == {msg \in Messages : msg.round = 1 /\ msg.kind = "good"}

InitPeers == \E boot \in PeerBoots : Boot(boot)

\* The height of a node's next block.
NextHeight(h, n) == IF n = 0 THEN h ELSE h + 1

NodeNewBlock ==
    /\ blocks < MaxPeerBlocks
    /\ NextHeight(height, blocks) - peer.height <= MaxSkew
    /\ NewBlock

NodeReceiveShare ==
    \E msg \in PeerMessages :
        /\ Apply(HandleOffChainShare(M, msg, height))
        /\ UNCHANGED <<height, blocks, peer, conc, ext>>

PeerNewBlock ==
    /\ peer.blocks < MaxPeerBlocks
    /\ NextHeight(peer.height, peer.blocks) - height <= MaxSkew
    /\ LET h == NextHeight(peer.height, peer.blocks)
           o == CheckDKGTime(peer.m, h)
       IN  peer' = [m |-> o.m, height |-> h, blocks |-> peer.blocks + 1,
                    last |-> LastOf(o)]
    /\ UNCHANGED <<verifier, nextVerifier, changeHeight, dkgRoundToDealer,
                   dkgRoundID, dkgNumBlocks, height, blocks, last, conc, ext>>

PeerReceiveShare ==
    \E msg \in PeerMessages :
        /\ LET o == HandleOffChainShare(peer.m, msg, peer.height)
           IN  peer' = [peer EXCEPT !.m = o.m, !.last = LastOf(o)]
        /\ UNCHANGED <<verifier, nextVerifier, changeHeight, dkgRoundToDealer,
                       dkgRoundID, dkgNumBlocks, height, blocks, last, conc, ext>>

NextPeers == NodeNewBlock \/ NodeReceiveShare \/ PeerNewBlock \/ PeerReceiveShare

SpecPeers == InitPeers /\ [][NextPeers]_vars

(************************* the round schedule ******************************)
\* Nodes booted at the genesis and shortly before heights 100, 200 and 300,
\* with dkg_num_blocks not provided (0), 1 and 3.
MaxScheduleBlocks == 8

ScheduleBoots ==
    {[height |-> h, verifier |-> BootstrapVerifier, numBlocks |-> n] :
        h \in {0, 98, 198, 298}, n \in {0, 1, 3}}

InitSchedule == \E boot \in ScheduleBoots : Boot(boot)

ScheduleNewBlock ==
    /\ blocks < MaxScheduleBlocks
    /\ NewBlock

ScheduleReceiveShare ==
    \E msg \in PeerMessages :
        /\ Apply(HandleOffChainShare(M, msg, height))
        /\ UNCHANGED <<height, blocks, peer, conc, ext>>

NextSchedule == ScheduleNewBlock \/ ScheduleReceiveShare

SpecSchedule == InitSchedule /\ [][NextSchedule]_vars

(************************* replayed messages *******************************)
\* Gossip redelivers messages: the reactor hands a message to
\* HandleOffChainShare again, at the height the node has reached by then.
\* delivered is the message of the latest call since which no CheckDKGTime
\* call changed the coordinator.
MaxReplayBlocks == 3

InitReplay == \E boot \in PeerBoots : Boot(boot)

ReplayNewBlock ==
    /\ blocks < MaxReplayBlocks
    /\ LET h == NextHeight(height, blocks)
           o == CheckDKGTime(M, h)
       IN  /\ Apply(o)
           /\ height' = h
           /\ delivered' = IF o.m = M THEN delivered ELSE NoMessage
    /\ blocks' = blocks + 1
    /\ UNCHANGED <<peer, conc, configured, queue, oc, store, main>>

ReplayReceiveShare ==
    \E msg \in Messages :
        /\ Apply(HandleOffChainShare(M, msg, height))
        /\ delivered' = msg
        /\ UNCHANGED <<height, blocks, peer, conc, configured, queue, oc, store, main>>

NextReplay == ReplayNewBlock \/ ReplayReceiveShare

SpecReplay == InitReplay /\ [][NextReplay]_vars

(************************* the message queue ********************************)
\* The dealer's sink, sendSignedMessage, is called by the goroutine that holds
\* m.mtx.  The channel m.dkgMsgQueue has MsgQueueSize slots; a detached
\* goroutine that finds it full waits in the channel's queue of senders,
\* which the runtime serves first in, first out.
MsgQueueSize == 2

\* The number of sink calls modelled; the calls are numbered 1, 2, ...
MaxSinkCalls == 4

\* A send that waits for room instead of the select with default: the caller
\* has not returned while no room is left.
sendDKGMessage_Blocking(q, id) ==
    LET f == [q EXCEPT !.fired = @ \cup {id}]
    IN  IF Len(q.chan) < MsgQueueSize
        THEN [f EXCEPT !.chan = Append(@, id), !.entered = @ \cup {id},
                       !.last = [@ EXCEPT !.path = "enqueued", !.returned = TRUE]]
        ELSE [f EXCEPT !.blocked = Append(@, id),
                       !.last = [@ EXCEPT !.path = "blocked", !.returned = FALSE]]

\* Lines 429-440: fire EventDKGData, then try to enqueue; when the channel is
\* full, start a goroutine that sends, and return.
sendDKGMessage(q, id) ==
    LET f == [q EXCEPT !.fired = @ \cup {id}]
    IN  IF Len(q.chan) < MsgQueueSize
        THEN [f EXCEPT !.chan = Append(@, id), !.entered = @ \cup {id},
                       !.last = [@ EXCEPT !.path = "enqueued", !.returned = TRUE]]
        ELSE [f EXCEPT !.spawned = @ \cup {id},
                       !.last = [@ EXCEPT !.path = "detached", !.returned = TRUE]]

\* Lines 442-449: sign; on failure return the error, else send.
sendSignedMessage(q, id, signOk) ==
    LET c == [q EXCEPT !.calls = id]
    IN  IF ~signOk
        THEN [c EXCEPT !.last = [id |-> id, signed |-> FALSE, path |-> "sign_error",
                                 returned |-> TRUE, fired |-> FALSE]]
        ELSE sendDKGMessage(
                 [c EXCEPT !.signed = @ \cup {id},
                           !.last = [id |-> id, signed |-> TRUE, path |-> "none",
                                     returned |-> FALSE, fired |-> TRUE]], id)

InitQueue == \E boot \in PeerBoots : Boot(boot)

\* The dealer calls its sink; m.Sign succeeds or fails.
SinkCall ==
    /\ queue.calls < MaxSinkCalls
    /\ \E signOk \in BOOLEAN :
           queue' = sendSignedMessage(queue, queue.calls + 1, signOk)
    /\ UNCHANGED <<verifier, nextVerifier, changeHeight, dkgRoundToDealer,
                   dkgRoundID, dkgNumBlocks, height, blocks, last, peer, conc,
                   configured, delivered, oc, store, main>>

\* Line 438: the detached goroutine runs its send: it enqueues, or it joins the
\* senders waiting on the full channel.
DetachedSend(id) ==
    /\ id \in queue.spawned
    /\ queue' = IF Len(queue.chan) < MsgQueueSize
                THEN [queue EXCEPT !.spawned = @ \ {id}, !.chan = Append(@, id),
                                   !.entered = @ \cup {id}]
                ELSE [queue EXCEPT !.spawned = @ \ {id}, !.blocked = Append(@, id)]
    /\ UNCHANGED <<verifier, nextVerifier, changeHeight, dkgRoundToDealer,
                   dkgRoundID, dkgNumBlocks, height, blocks, last, peer, conc,
                   configured, delivered, oc, store, main>>

\* Lines 481-483: the consumer of MsgQueue() receives a message; the first
\* waiting sender's message takes the freed slot.
Consume ==
    /\ queue.chan # << >>
    /\ queue' = IF queue.blocked = << >>
                THEN [queue EXCEPT !.chan = Tail(@)]
                ELSE [queue EXCEPT !.chan = Append(Tail(@), Head(queue.blocked)),
                                   !.entered = @ \cup {Head(queue.blocked)},
                                   !.blocked = Tail(@)]
    /\ UNCHANGED <<verifier, nextVerifier, changeHeight, dkgRoundToDealer,
                   dkgRoundID, dkgNumBlocks, height, blocks, last, peer, conc,
                   configured, delivered, oc, store, main>>

NextQueue == SinkCall \/ (\E id \in 1..MaxSinkCalls : DetachedSend(id)) \/ Consume

\* Every started goroutine is scheduled, and the consumer keeps receiving.
SpecQueue ==
    /\ InitQueue
    /\ [][NextQueue]_vars
    /\ \A id \in 1..MaxSinkCalls : WF_vars(DetachedSend(id))
    /\ WF_vars(Consume)

\* The elements of a sequence.
Range(seq) == {seq[i] : i \in DOMAIN seq}

(************************* the on-chain coordinator ************************)
\* The record of a ProcessBlock call, before any.
NoBlock == [calls |-> << >>, err |-> "none", done |-> FALSE, verifier |-> "unasked"]

\* Line 30-36, with the sequence getTools read from the account; sent counts
\* the sendMsg calls by outcome.
NewOnChainDKG(accSequence) ==
    [pc |-> "new", dealer |-> NilDealer, sequence |-> accSequence,
     initial |-> accSequence, sent |-> [invalid |-> 0, failed |-> 0, ok |-> 0],
     started |-> "no", last |-> NoBlock]

\* A sink that advances the sequence only when the broadcast succeeded.
sendMsg_OnSuccess(c, valid, ok) ==
    IF ~valid
    THEN [c |-> [c EXCEPT !.sent.invalid = @ + 1], err |-> "validate"]
    ELSE IF ok
         THEN [c |-> [c EXCEPT !.sequence = @ + 1, !.sent.ok = @ + 1], err |-> "none"]
         ELSE [c |-> [c EXCEPT !.sent.failed = @ + 1], err |-> "broadcast"]

\* Lines 108-122: valid is whether msg.ValidateBasic passes, ok whether
\* GenerateOrBroadcastMsgs returns nil.
sendMsg(c, valid, ok) ==
    IF ~valid
    THEN [c |-> [c EXCEPT !.sent.invalid = @ + 1], err |-> "validate"]
    ELSE LET tempTxBldr == [c EXCEPT !.sequence = @ + 1]
         IN  IF ok
             THEN [c |-> [tempTxBldr EXCEPT !.sent.ok = @ + 1], err |-> "none"]
             ELSE [c |-> [tempTxBldr EXCEPT !.sent.failed = @ + 1], err |-> "broadcast"]

\* What a sink call meets: [valid, ok].
SinkResults == {<<FALSE, FALSE>>, <<TRUE, FALSE>>, <<TRUE, TRUE>>}

\* A handler table that sends every bucket to the first handler.
Handler_First(dataType) == "HandleDKGPubKey"

\* Lines 56-72: the dealer's handler for a data type.
Handler(dataType) ==
    CASE dataType = 0 -> "HandleDKGPubKey"
      [] dataType = 1 -> "HandleDKGDeal"
      [] dataType = 2 -> "HandleDKGResponse"
      [] dataType = 3 -> "HandleDKGJustification"
      [] dataType = 4 -> "HandleDKGCommit"
      [] dataType = 5 -> "HandleDKGComplaint"
      [] dataType = 6 -> "HandleDKGReconstructCommit"

Call(fn, dataType, idx) == [fn |-> fn, type |-> dataType, idx |-> idx]

\* Lines 73-77: the messages of one bucket, from the i-th on, go to the
\* handler one by one; the first error ends the loop.
RECURSIVE HandleMessages(_, _, _, _)
HandleMessages(d, dataType, messages, i) ==
    IF i > Len(messages)
    THEN [dealer |-> d, err |-> FALSE, calls |-> << >>]
    ELSE LET msg == [type |-> dataType, kind |-> messages[i]]
             call == Call(Handler(dataType), dataType, i)
         IN  IF HandlerFails(d, msg)
             THEN [dealer |-> d, err |-> TRUE, calls |-> <<call>>]
             ELSE LET r == HandleMessages(DealerHandle(d, msg), dataType, messages, i + 1)
                  IN  [r EXCEPT !.calls = <<call>> \o @]

\* Lines 43-78: the data types from dataType on, in order; failAt is the data
\* type whose query fails or does not decode (Len(PhaseOrder) for none).
RECURSIVE ProcessTypes(_, _, _, _)
ProcessTypes(d, st, failAt, dataType) ==
    IF dataType \notin DataTypes
    THEN [dealer |-> d, err |-> "none", calls |-> << >>]
    ELSE LET query == Call("getDKGMessages", dataType, 0)
         IN  IF failAt = dataType
             THEN [dealer |-> d, err |-> "query", calls |-> <<query>>]
             ELSE LET h == HandleMessages(d, dataType, st[dataType], 1)
                  IN  IF h.err
                      THEN [dealer |-> h.dealer, err |-> "handler",
                            calls |-> <<query>> \o h.calls]
                      ELSE LET r == ProcessTypes(h.dealer, st, failAt, dataType + 1)
                           IN  [r EXCEPT !.calls = <<query>> \o h.calls \o @]

\* A ProcessBlock that takes every GetVerifier error for "not ready".
ProcessBlock_AnyErrorRetries(c, st, failAt) ==
    LET p == ProcessTypes(c.dealer, st, failAt, 0)
        v == GetVerifier(p.dealer)
    IN  IF p.err # "none"
        THEN [c EXCEPT !.dealer = p.dealer,
                       !.last = [calls |-> p.calls, err |-> p.err, done |-> FALSE,
                                 verifier |-> "unasked"]]
        ELSE [c EXCEPT !.dealer = p.dealer,
                       !.last = [calls |-> p.calls \o <<Call("GetVerifier", Len(PhaseOrder), 0)>>,
                                 err |-> "none", done |-> v = "ready", verifier |-> v]]

\* Lines 42-88.
ProcessBlock(c, st, failAt) ==
    LET p == ProcessTypes(c.dealer, st, failAt, 0)
        v == GetVerifier(p.dealer)
    IN  IF p.err # "none"
        THEN [c EXCEPT !.dealer = p.dealer,
                       !.last = [calls |-> p.calls, err |-> p.err, done |-> FALSE,
                                 verifier |-> "unasked"]]
        ELSE [c EXCEPT !.dealer = p.dealer,
                       !.last = [calls |-> p.calls \o <<Call("GetVerifier", Len(PhaseOrder), 0)>>,
                                 err |-> IF v = "failed" THEN "verifier" ELSE "none",
                                 done |-> v = "ready", verifier |-> v]]

\* Lines 90-102: the dealer is created with the sink m.sendMsg and started;
\* Start broadcasts the node's public key through the sink and fails when
\* the sink does.
StartRound(c, valid, ok) ==
    LET s == sendMsg([c EXCEPT !.dealer = DealerStart(NewDKGDealer(0))], valid, ok)
    IN  [s.c EXCEPT !.started = IF s.err = "none" THEN "ok" ELSE "error"]

\* The sink calls the dealer makes from its handlers during a call: none
\* when no handler ran.
RECURSIVE SendAll(_, _)
SendAll(c, plan) ==
    IF plan = << >> THEN c
    ELSE SendAll(sendMsg(c, Head(plan)[1], Head(plan)[2]).c, Tail(plan))

HandlerRan(c) == \E call \in Range(c.last.calls) : call.idx > 0

(************************* one on-chain instance **************************)
\* One OnChainDKG whose caller starts the round and then calls ProcessBlock
\* any number of times, while the chain includes DKG transactions.
MaxTxs == 2

\* The sendMsg calls modelled per instance.
MaxSends == 2

\* The account sequences getTools may read.
AccSequences == {7}

\* The buckets that receive transactions: the first two and the last.
TxTypes == {0, 1, Len(PhaseOrder) - 1}

\* What the chain's validators may have put into a transaction.
TxKinds == {"good", "badpayload", "poison"}

\* The sink calls of one ProcessBlock call.
Plans == {<< >>} \cup {<<r>> : r \in SinkResults}

NoQueryFails == Len(PhaseOrder)

StoreSize(st) == LET RECURSIVE Sum(_)
                     Sum(t) == IF t \notin DataTypes THEN 0 ELSE Len(st[t]) + Sum(t + 1)
                 IN  Sum(0)

Sent(c) == c.sent.invalid + c.sent.failed + c.sent.ok

\* The sink calls the dealer of c may make during the call c.last records.
PlansOf(c) == IF HandlerRan(c) /\ Sent(c) < MaxSends THEN Plans ELSE {<< >>}

InitOnChain ==
    /\ \E boot \in PeerBoots : BootNode(boot)
    /\ delivered = NoMessage
    /\ queue = EmptyQueue
    /\ store = EmptyStore
    /\ main = NotRunning
    /\ \E accSequence \in AccSequences : oc = <<NewOnChainDKG(accSequence)>>

OnChainStartRound ==
    /\ oc[1].pc = "new"
    /\ \E r \in SinkResults :
           oc' = [oc EXCEPT ![1] = [StartRound(@, r[1], r[2]) EXCEPT !.pc = "ticking"]]
    /\ UNCHANGED <<verifier, nextVerifier, changeHeight, dkgRoundToDealer,
                   dkgRoundID, dkgNumBlocks, height, blocks, last, peer, conc,
                   configured, delivered, queue, store, main>>

OnChainProcessBlock ==
    /\ oc[1].pc = "ticking"
    /\ \E failAt \in DataTypes \cup {NoQueryFails} :
           LET r == ProcessBlock(oc[1], store, failAt)
           IN  \E plan \in PlansOf(r) : oc' = [oc EXCEPT ![1] = SendAll(r, plan)]
    /\ UNCHANGED <<verifier, nextVerifier, changeHeight, dkgRoundToDealer,
                   dkgRoundID, dkgNumBlocks, height, blocks, last, peer, conc,
                   configured, delivered, queue, store, main>>

\* A block includes a DKG transaction of some validator.
ChainIncludes ==
    /\ StoreSize(store) < MaxTxs
    /\ \E t \in TxTypes, k \in TxKinds : store' = [store EXCEPT ![t] = Append(@, k)]
    /\ UNCHANGED <<verifier, nextVerifier, changeHeight, dkgRoundToDealer,
                   dkgRoundID, dkgNumBlocks, height, blocks, last, peer, conc,
                   configured, delivered, queue, oc, main>>

NextOnChain == OnChainStartRound \/ OnChainProcessBlock \/ ChainIncludes

SpecOnChain == InitOnChain /\ [][NextOnChain]_vars

(************************* the on-chain driver *****************************)
\* main(): four validators, an OnChainDKG and a goroutine for each; the
\* goroutine starts the round and calls ProcessBlock on every tick of its
\* ticker.  A panic in any goroutine ends the process.
NumInstances == 4

Running == ~main.panicked /\ ~main.finished

\* The run of the driver modelled: the validators' transactions are well
\* formed PubKey and Deal messages, the first query of a ProcessBlock call
\* may fail, and a dealer that handled a message sends its next one, which
\* is broadcast.
DriverFailures == {0, NoQueryFails}

DriverPlan(c) ==
    IF HandlerRan(c) /\ Sent(c) < MaxSends THEN <<<<TRUE, TRUE>>>> ELSE << >>

InitDriver == \E boot \in PeerBoots : Boot(boot)

\* Lines 57-71: wg.Add(1), a new OnChainDKG, and its goroutine.
Launch ==
    /\ Running
    /\ Len(oc) < NumInstances
    /\ \E accSequence \in AccSequences : oc' = Append(oc, NewOnChainDKG(accSequence))
    /\ main' = [main EXCEPT !.wg = @ + 1]
    /\ UNCHANGED <<verifier, nextVerifier, changeHeight, dkgRoundToDealer,
                   dkgRoundID, dkgNumBlocks, height, blocks, last, peer, conc,
                   configured, delivered, queue, store>>

\* Lines 72-75: the goroutine starts the round, and panics when that fails.
GoStartRound(i) ==
    /\ Running
    /\ i \in DOMAIN oc
    /\ oc[i].pc = "new"
    /\ \E r \in SinkResults :
           LET c == StartRound(oc[i], r[1], r[2])
           IN  IF c.started = "error"
               THEN /\ oc' = [oc EXCEPT ![i] = [c EXCEPT !.pc = "panicked"]]
                    /\ main' = [main EXCEPT !.panicked = TRUE]
               ELSE /\ oc' = [oc EXCEPT ![i] = [c EXCEPT !.pc = "ticking"]]
                    /\ main' = main
    /\ UNCHANGED <<verifier, nextVerifier, changeHeight, dkgRoundToDealer,
                   dkgRoundID, dkgNumBlocks, height, blocks, last, peer, conc,
                   configured, delivered, queue, store>>

\* Lines 76-86: on a tick the goroutine calls ProcessBlock; an error panics,
\* done = true calls wg.Done() and ends the goroutine.
Tick(i) ==
    /\ Running
    /\ i \in DOMAIN oc
    /\ oc[i].pc = "ticking"
    /\ \E failAt \in DriverFailures :
           LET r == ProcessBlock(oc[i], store, failAt)
               c == SendAll(r, DriverPlan(r))
           IN  IF r.last.err # "none"
               THEN /\ oc' = [oc EXCEPT ![i] = [c EXCEPT !.pc = "panicked"]]
                    /\ main' = [main EXCEPT !.panicked = TRUE]
               ELSE IF r.last.done
               THEN /\ oc' = [oc EXCEPT ![i] = [c EXCEPT !.pc = "done"]]
                    /\ main' = [main EXCEPT !.wg = @ - 1]
               ELSE /\ oc' = [oc EXCEPT ![i] = c]
                    /\ main' = main
    /\ UNCHANGED <<verifier, nextVerifier, changeHeight, dkgRoundToDealer,
                   dkgRoundID, dkgNumBlocks, height, blocks, last, peer, conc,
                   configured, delivered, queue, store>>

\* A main that prints and returns once every goroutine was started.
MainReturn_NoWait ==
    /\ Running
    /\ Len(oc) = NumInstances
    /\ \A i \in DOMAIN oc : oc[i].pc # "new"
    /\ main' = [main EXCEPT !.finished = TRUE]
    /\ UNCHANGED <<verifier, nextVerifier, changeHeight, dkgRoundToDealer,
                   dkgRoundID, dkgNumBlocks, height, blocks, last, peer, conc,
                   configured, delivered, queue, oc, store>>

\* Lines 90-92: wg.Wait() returns, main prints and returns.
MainReturn ==
    /\ Running
    /\ Len(oc) = NumInstances
    /\ main.wg = 0
    /\ main' = [main EXCEPT !.finished = TRUE]
    /\ UNCHANGED <<verifier, nextVerifier, changeHeight, dkgRoundToDealer,
                   dkgRoundID, dkgNumBlocks, height, blocks, last, peer, conc,
                   configured, delivered, queue, oc, store>>

\* A block includes a well formed PubKey or Deal transaction.
DriverChainIncludes ==
    /\ StoreSize(store) < MaxTxs
    /\ \E t \in AllTypes : store' = [store EXCEPT ![t] = Append(@, "good")]
    /\ UNCHANGED <<verifier, nextVerifier, changeHeight, dkgRoundToDealer,
                   dkgRoundID, dkgNumBlocks, height, blocks, last, peer, conc,
                   configured, delivered, queue, oc, main>>

NextDriver ==
    \/ Launch
    \/ \E i \in 1..NumInstances : GoStartRound(i)
    \/ \E i \in 1..NumInstances : Tick(i)
    \/ MainReturn
    \/ DriverChainIncludes

\* main and every goroutine keep running, and every ticker keeps ticking.
SpecDriver ==
    /\ InitDriver
    /\ [][NextDriver]_vars
    /\ WF_vars(Launch)
    /\ \A i \in 1..NumInstances : WF_vars(GoStartRound(i)) /\ WF_vars(Tick(i))
    /\ WF_vars(MainReturn)

(************************* two threads *************************************)
\* The consensus thread calls CheckDKGTime and the reactor thread calls
\* HandleOffChainShare.  HandleOffChainShare holds m.mtx from its first line
\* to its return (lines 333-334); CheckDKGTime takes no lock (lines 466-479),
\* so each of its reads and writes is a step of its own.
ConcBoots == {[height |-> 9, verifier |-> BootstrapVerifier, numBlocks |-> 10]}

InitConc == \E boot \in ConcBoots : Boot(boot)

\* Line 467: CheckDKGTime(height) is entered and compares m.changeHeight.
CheckEnter ==
    /\ conc.check = "idle"
    /\ blocks < MaxBlocks
    /\ LET h == NextHeight(height, blocks)
       IN  /\ height' = h
           /\ conc' = [conc EXCEPT !.check = IF SwapDue(M, h) THEN "swap" ELSE "round"]
    /\ blocks' = blocks + 1
    /\ UNCHANGED <<verifier, nextVerifier, changeHeight, dkgRoundToDealer,
                   dkgRoundID, dkgNumBlocks, last, peer, ext>>

\* Line 469, first assignment: m.verifier = m.nextVerifier.
CheckSwapVerifier ==
    /\ conc.check = "swap"
    /\ verifier' = nextVerifier
    /\ conc' = [conc EXCEPT !.check = "clear"]
    /\ UNCHANGED <<nextVerifier, changeHeight, dkgRoundToDealer, dkgRoundID,
                   dkgNumBlocks, height, blocks, last, peer, ext>>

\* Line 469, second assignment: m.nextVerifier = nil.
CheckClearNext ==
    /\ conc.check = "clear"
    /\ nextVerifier' = NilVerifier
    /\ conc' = [conc EXCEPT !.check = "reset"]
    /\ UNCHANGED <<verifier, changeHeight, dkgRoundToDealer, dkgRoundID,
                   dkgNumBlocks, height, blocks, last, peer, ext>>

\* Lines 470-471: m.changeHeight = 0.
CheckResetHeight ==
    /\ conc.check = "reset"
    /\ changeHeight' = 0
    /\ conc' = [conc EXCEPT !.check = "round"]
    /\ UNCHANGED <<verifier, nextVerifier, dkgRoundToDealer, dkgRoundID,
                   dkgNumBlocks, height, blocks, last, peer, ext>>

\* Lines 474-479: start a round when one is due, and return.
CheckRound ==
    /\ conc.check = "round"
    /\ Store(IF RoundDue(M, height) THEN startRound(M)[1] ELSE M)
    /\ conc' = [conc EXCEPT !.check = "idle"]
    /\ UNCHANGED <<height, blocks, last, peer, ext>>

\* Lines 333-407: HandleOffChainShare takes the mutex and runs up to the
\* staging of the verifier; on every other path it returns and unlocks.
ShareEnter ==
    /\ conc.share = "idle"
    /\ ~conc.mtx
    /\ \E msg \in Messages :
        LET o == HandleOffChainShare(M, msg, height)
        IN  IF o.path = "success"
            THEN /\ Store([o.m EXCEPT !.nextVerifier = nextVerifier,
                                      !.changeHeight = changeHeight])
                 /\ conc' = [conc EXCEPT !.share = "stage", !.mtx = TRUE,
                                         !.h = height, !.v = o.m.nextVerifier]
            ELSE /\ Store(o.m)
                 /\ conc' = conc
    /\ UNCHANGED <<height, blocks, last, peer, ext>>

\* Line 408: m.nextVerifier = verifier.
ShareStageVerifier ==
    /\ conc.share = "stage"
    /\ nextVerifier' = conc.v
    /\ conc' = [conc EXCEPT !.share = "height"]
    /\ UNCHANGED <<verifier, changeHeight, dkgRoundToDealer, dkgRoundID,
                   dkgNumBlocks, height, blocks, last, peer, ext>>

\* Lines 409-412: m.changeHeight is set, the call returns and unlocks.
ShareSetChangeHeight ==
    /\ conc.share = "height"
    /\ changeHeight' = ChangeHeightAt(conc.h)
    /\ conc' = [conc EXCEPT !.share = "idle", !.mtx = FALSE]
    /\ UNCHANGED <<verifier, nextVerifier, dkgRoundToDealer, dkgRoundID,
                   dkgNumBlocks, height, blocks, last, peer, ext>>

NextConc ==
    \/ CheckEnter \/ CheckSwapVerifier \/ CheckClearNext \/ CheckResetHeight
    \/ CheckRound
    \/ ShareEnter \/ ShareStageVerifier \/ ShareSetChangeHeight

SpecConc == InitConc /\ [][NextConc]_vars

(************************* claims ******************************************)
\* The last call was a HandleOffChainShare in which the dealer yielded a verifier.
Completed == last.op = "handle" /\ last.path = "success"

\* C1: when HandleOffChainShare is called at height h and the dealer yields a
\* verifier, change_height = (h + 20) - ((h + 20) mod 5); for h in 10..30 this
\* is ((h + 20) div 5) * 5 and at least h + 16, and for h = 77 it is 95.
C1_ChangeHeightArithmetic ==
    Completed =>
        /\ changeHeight = (last.height + 20) - ((last.height + 20) % 5)
        /\ last.height \in 10..30 =>
              /\ changeHeight = ((last.height + 20) \div 5) * 5
              /\ changeHeight >= last.height + 16
        /\ last.height = 77 => changeHeight = 95

C1_Witness == Completed /\ last.height = 77 /\ changeHeight = 95

\* C2: two coordinators that complete the same round at heights that differ
\* by at most one block compute the same change_height.
C2_SameSwapHeight ==
    (/\ Completed
     /\ peer.last.op = "handle"
     /\ peer.last.path = "success"
     /\ peer.last.round = last.round
     /\ last.height - peer.last.height \in {-1, 0, 1})
    => changeHeight = peer.m.changeHeight

\* C3: with CheckDKGTime called once per block and HandleOffChainShare called
\* at the current height, a change_height other than 0 is at least the current
\* height and a multiple of 5.
C3_ChangeHeightAhead ==
    changeHeight # 0 => changeHeight >= height /\ changeHeight % 5 = 0

C3_Witness ==
    /\ last.op = "check"
    /\ changeHeight # 0
    /\ changeHeight = height + 1

C6_CurrentChangesOnlyAtChangeHeight ==
    [][verifier' # verifier =>
          /\ last'.op = "check"
          /\ last'.height = changeHeight]_vars

C6_Witness ==
    /\ last.op = "check"
    /\ last.path = "noswap"
    /\ last.ret
    /\ nextVerifier.kind = "dkg"
    /\ verifier = BootstrapVerifier

\* C7: when round R completes, every registry entry with a round id below R
\* is tombstoned.
C7_OlderRoundsTombstoned ==
    Completed =>
        \A r \in DOMAIN dkgRoundToDealer :
            r < last.round => dkgRoundToDealer[r].nil

\* C8: after round R completes, the registry entry of R still holds its dealer.
C8_CompletedRoundAddressable ==
    Completed => ~dkgRoundToDealer[last.round].nil

\* C9: a message for a tombstoned round calls no dealer method, creates no
\* dealer, changes no coordinator state and returns false.
C9_TombstonedRoundDropped ==
    [][(/\ last'.op = "handle"
        /\ last'.round \in DOMAIN dkgRoundToDealer
        /\ dkgRoundToDealer[last'.round].nil)
       => /\ UNCHANGED <<verifier, nextVerifier, changeHeight, dkgRoundToDealer,
                         dkgRoundID, dkgNumBlocks>>
          /\ last'.calls = << >>
          /\ last'.ret = FALSE]_vars

C9_Witness ==
    /\ last.op = "handle"
    /\ last.path = "inactive"
    /\ dkgRoundToDealer[last.round].nil

\* C10: CheckDKGTime and HandleOffChainShare exclude each other, so no step of
\* one runs inside the other, and with both threads outside their calls the
\* coordinator is never left with a staged verifier and change_height = 0.
C10_SwapSerialized ==
    /\ ~(conc.check # "idle" /\ conc.share # "idle")
    /\ (conc.check = "idle" /\ conc.share = "idle")
          => ~(nextVerifier # NilVerifier /\ changeHeight = 0)

\* C14: when dealer.VerifyMessage fails, HandleOffChainShare returns false and
\* registry (keys included), next, change_height, current and round id stay as
\* they were, also for a round id the registry did not hold.
C14_UnverifiedChangesNothing ==
    [][(last'.op = "handle" /\ last'.path = "unverified")
       => /\ last'.ret = FALSE
          /\ UNCHANGED <<verifier, nextVerifier, changeHeight, dkgRoundToDealer,
                         dkgRoundID>>]_vars

\* C15: a phase-handler error tombstones the round, slashes and returns false
\* without consulting GetVerifier; a GetVerifier error other than "not ready"
\* tombstones the round, slashes and returns true; true is returned in no
\* other case; neither case changes next, change_height or current.
C15_RoundLevelErrors ==
    [][last'.op = "handle" =>
          /\ last'.path = "handler_error" =>
                /\ dkgRoundToDealer'[last'.round].nil
                /\ last'.slashed
                /\ "GetLosers" \in Range(last'.calls)
                /\ "GetVerifier" \notin Range(last'.calls)
                /\ last'.ret = FALSE
          /\ last'.path = "verifier_error" =>
                /\ dkgRoundToDealer'[last'.round].nil
                /\ last'.slashed
                /\ "GetLosers" \in Range(last'.calls)
                /\ last'.ret = TRUE
          /\ last'.ret = TRUE => last'.path = "verifier_error"
          /\ last'.path \in {"handler_error", "verifier_error"} =>
                UNCHANGED <<verifier, nextVerifier, changeHeight>>]_vars

C15_Witness ==
    /\ last.op = "handle"
    /\ last.path = "verifier_error"
    /\ last.ret
    /\ nextVerifier.kind = "dkg"
    /\ dkgRoundToDealer[last.round].nil

C16_RoundStartSchedule ==
    [][last'.op = "check" =>
          LET h == last'.height
              n == IF configured = 0 THEN 100 ELSE configured
          IN  /\ last'.ret <=> (h > 1 /\ h % n = 0)
              /\ h \in {0, 1} => ~last'.ret
              /\ configured = 0 => (last'.ret <=> h \in {100, 200, 300})
              /\ dkgRoundID' = IF last'.ret THEN dkgRoundID + 1 ELSE dkgRoundID]_vars

\* A coordinator built without dkg_num_blocks started a round at height 200.
C16_Witness ==
    /\ last.op = "check" /\ last.ret /\ last.height = 200
    /\ configured = 0 /\ dkgRoundID = 1

\* C17: handling the same message a second time, at the same or at a later
\* height, leaves registry, next, change_height and current as the first call
\* left them, also when the message is the one that completes the round.
C17_ReplayIdempotent ==
    [][(last'.op = "handle" /\ delivered # NoMessage /\ delivered' = delivered)
          => UNCHANGED <<dkgRoundToDealer, nextVerifier, changeHeight, verifier>>]_vars

\* C19: the sink never blocks its caller on the queue: with the queue full it
\* hands the message to a detached goroutine and returns; every signed
\* message is eventually enqueued while the consumer keeps receiving; when
\* signing fails, no EventDKGData is fired and nothing is enqueued.
C19_SinkNeverBlocks ==
    /\ [][queue'.calls # queue.calls =>
            LET l == queue'.last
            IN  /\ l.id = queue'.calls /\ l.returned
                /\ queue.blocked = queue'.blocked
                /\ l.signed =>
                      /\ l.id \in queue'.fired
                      /\ IF Len(queue.chan) < MsgQueueSize
                         THEN queue'.chan = Append(queue.chan, l.id)
                         ELSE /\ queue'.chan = queue.chan
                              /\ queue'.spawned = queue.spawned \cup {l.id}
                /\ ~l.signed =>
                      /\ queue'.fired = queue.fired /\ queue'.chan = queue.chan
                      /\ queue'.spawned = queue.spawned
                      /\ queue'.entered = queue.entered]_vars
    /\ [](queue.fired \cup queue.entered \cup queue.spawned \subseteq queue.signed)
    /\ \A id \in 1..MaxSinkCalls : (id \in queue.signed) ~> (id \in queue.entered)

\* A message handed to a detached goroutine has been enqueued, and an earlier
\* call failed to sign.
C19_Witness ==
    /\ queue.last.path = "detached" /\ queue.last.id \in queue.entered
    /\ \E id \in 1..queue.calls : id \notin queue.signed

\* C11 (as stated): every sendMsg call, whatever its outcome, advances the
\* sequence by one: after k calls it is the initial sequence plus k.
C11_SequencePerCall ==
    \A i \in DOMAIN oc : oc[i].sequence = oc[i].initial + Sent(oc[i])

\* C11 (amended): the sequence advances by one per call that passed basic
\* validation, whether its broadcast succeeded or failed, and not at all in
\* a call whose basic validation failed.
C11_SequencePerValidatedCall ==
    \A i \in DOMAIN oc :
        oc[i].sequence = oc[i].initial + oc[i].sent.failed + oc[i].sent.ok

\* One call failed basic validation and one failed to broadcast.
C11_Witness ==
    /\ oc # << >>
    /\ oc[1].sent.invalid = 1 /\ oc[1].sent.failed = 1
    /\ oc[1].sequence = oc[1].initial + 1

\* C12: a ProcessBlock call queries the seven buckets in the order PubKey ..
\* ReconstructCommit and hands every message of a bucket, in order, to the
\* handler of that bucket; the first query or handler error ends the call
\* with (err, false): nothing later is dispatched, GetVerifier is not called.
C12_PhasesInOrder ==
    [][(oc # << >> /\ oc[1].pc = "ticking" /\ oc'[1] # oc[1]) =>
          LET l == oc'[1].last
              n == Len(l.calls)
              z == l.calls[n]
              handlerOf == <<"HandleDKGPubKey", "HandleDKGDeal", "HandleDKGResponse",
                             "HandleDKGJustification", "HandleDKGCommit",
                             "HandleDKGComplaint", "HandleDKGReconstructCommit">>
              Before(a, b) == a.type < b.type \/ (a.type = b.type /\ a.idx < b.idx)
          IN  /\ n > 0
              /\ \A j \in 1..(n - 1) : Before(l.calls[j], l.calls[j + 1])
              /\ \A j \in 1..n :
                    LET call == l.calls[j]
                    IN  IF call.type = 7
                        THEN call.fn = "GetVerifier" /\ j = n
                        ELSE /\ call.type \in 0..6
                             /\ call.idx \in 0..Len(store[call.type])
                             /\ call.fn = IF call.idx = 0 THEN "getDKGMessages"
                                          ELSE handlerOf[call.type + 1]
                             /\ (call.idx > 0 /\ j < n) =>
                                    store[call.type][call.idx] # "badpayload"
              /\ \A t \in 0..6 : \A k \in 0..Len(store[t]) :
                    Before([type |-> t, idx |-> k], z) =>
                        \E call \in Range(l.calls) : call.type = t /\ call.idx = k
              /\ l.err \in {"query", "handler"} <=> z.type # 7
              /\ z.type # 7 => ~l.done
              /\ l.err = "query" <=> (z.type # 7 /\ z.idx = 0)
              /\ l.err = "handler" =>
                    z.idx > 0 /\ store[z.type][z.idx] = "badpayload"]_vars

\* A PubKey message was handled, then a Deal message failed in its handler.
C12_Witness ==
    /\ oc # << >>
    /\ oc[1].last.err = "handler"
    /\ LET calls == oc[1].last.calls
       IN  /\ Len(calls) = 4
           /\ calls[2] = [fn |-> "HandleDKGPubKey", type |-> 0, idx |-> 1]
           /\ calls[4] = [fn |-> "HandleDKGDeal", type |-> 1, idx |-> 1]

\* C13: ProcessBlock returns done = true iff all seven phases were processed
\* without error and GetVerifier succeeded; (nil, false) exactly when all
\* phases succeeded and the verifier is not ready; another GetVerifier error
\* gives an error with done = false; never done = true with an error.
C13_DoneIffVerifierReady ==
    \A i \in DOMAIN oc :
        LET l == oc[i].last
            allPhases ==
                /\ \A t \in 0..6 : \E call \in Range(l.calls) :
                                        call.fn = "getDKGMessages" /\ call.type = t
                /\ l.err \notin {"query", "handler"}
            v == GetVerifier(oc[i].dealer)
        IN  /\ l.done <=> (allPhases /\ v = "ready")
            /\ (l.calls # << >> /\ l.err = "none" /\ ~l.done) <=>
                    (allPhases /\ v = "notready")
            /\ (allPhases /\ v = "failed") => (l.err = "verifier" /\ ~l.done)
            /\ ~(l.done /\ l.err # "none")

\* A call found PubKey and Deal messages and returned (nil, true).
C13_Witness ==
    /\ oc # << >>
    /\ oc[1].last.done /\ oc[1].last.err = "none"
    /\ oc[1].last.verifier = "ready"

\* C20: every instance starts one round and then calls ProcessBlock on each
\* tick until done = true or an error; after its first done = true it makes
\* no further call and has reported completion exactly once; main finishes
\* only after all four instances reported done; and once the chain holds
\* what makes every dealer ready, main finishes unless an error ended the
\* process.
C20_DriverTermination ==
    /\ [][
          /\ \A i \in DOMAIN oc :
                /\ oc[i].pc = "done" => oc'[i] = oc[i]
                /\ oc'[i].pc = "new" => oc[i].pc = "new"
                /\ oc[i].pc = "new" =>
                      /\ oc'[i].last = NoBlock
                      /\ oc'[i].pc \in {"new", "ticking", "panicked"}
                      /\ oc'[i].pc = "ticking" => oc'[i].dealer.started
                /\ (oc[i].pc = "ticking" /\ oc'[i] # oc[i]) =>
                      /\ oc'[i].last.calls # << >>
                      /\ oc'[i].pc = IF oc'[i].last.err # "none" THEN "panicked"
                                     ELSE IF oc'[i].last.done THEN "done"
                                     ELSE "ticking"
          /\ main'.wg = main.wg + (Len(oc') - Len(oc))
                          - Cardinality({j \in DOMAIN oc :
                                           oc[j].pc # "done" /\ oc'[j].pc = "done"})
          /\ main.finished => main'.finished
       ]_vars
    /\ [](main.wg = Cardinality({i \in DOMAIN oc : oc[i].pc # "done"}))
    /\ [](main.finished =>
             /\ Len(oc) = 4
             /\ \A i \in 1..4 : oc[i].pc = "done" /\ oc[i].last.done)
    /\ (\A t \in AllTypes : store[t] # << >>) ~> (main.finished \/ main.panicked)

\* All four instances are done and main has returned.
C20_Witness ==
    /\ main.finished /\ main.wg = 0
    /\ Len(oc) = 4 /\ \A i \in 1..4 : oc[i].pc = "done"

\* C21: CheckDKGTime never replaces a non-null current verifier by null; a
\* coordinator built with a bootstrap verifier and no completed round keeps
\* it after CheckDKGTime at every height, height 0 included.
C21_CheckKeepsVerifier ==
    [][(last'.op = "check" /\ verifier # NilVerifier) => verifier' # NilVerifier]_vars

\* C22: while a round's verifier is staged, handling a further message of
\* that round leaves change_height as the completion set it, so the staged
\* verifier is promoted exactly at that height.
C22_StagedChangeHeightStable ==
    [][(/\ last'.op = "handle"
        /\ nextVerifier.kind = "dkg"
        /\ last'.round = nextVerifier.round
        /\ changeHeight > height)
          => changeHeight' = changeHeight]_vars

=============================================================================
